---- MODULE Spec2Model ----
(***************************************************************************)
(* JobHub task store (src/server/state.rs): id allocation, the task map,   *)
(* ownership checks, deferred eviction, and the output readers of a        *)
(* process task.  The execution engine (Task / Handle in server/task.rs)   *)
(* and the connection manager are modelled at their boundary.              *)
(***************************************************************************)
EXTENDS Integers, Sequences, FiniteSets, TLC

\* ---------------------------------------------------------------- bounds
\* number of creation calls (run_task / run_download_task) in a behaviour
MaxCalls == 2
\* the clock runs from 0 to MaxTime seconds in steps of TickStep seconds
MaxTime == 1300
TickStep == 600
\* number of bytes a process writes, over both streams
MaxOutput == 3
\* capacity of the duplex conduit and size of the read buffer, scaled down
\* from duplex(100) and [0; 256]; the buffer is larger than the conduit
DuplexCap == 2
ReadBuf == 3
\* listener connections that can be registered, and the capacity of a
\* connection's outbound queue, in messages
MaxConns == 2
QueueCap == 1
\* requests (status or cancel) that can be in progress at the same time
MaxReaders == 2
\* the modulus of current_id: stands for 2^32 (AtomicU32), which is beyond
\* the integers TLC can hold
IdModulus == 8

\* ------------------------------------------------------ program constants
\* tokio::time::sleep(Duration::from_secs(900)) before the removal
RetentionDelay == 900
\* let timeout = Duration::from_secs(600)
Timeout == 600

Calls == 1..MaxCalls
ChatIds == {"A", "B"}
\* the ids the counter can issue in a behaviour
IdSpace == (0..(MaxCalls - 1)) \cup {IdModulus - 1}
\* an id the counter never issues in a behaviour
UnknownId == MaxCalls
Terminal == {"Completed", "Failed", "TimedOut", "Cancelled"}
IoTypes == {"Stdout", "Stderr"}
ConnIds == 1..MaxConns
Readers == 1..MaxReaders
\* no cancel_task / task_status request in progress
NoRequest == [pc |-> "idle", op |-> "none", id |-> 0, chat_id |-> "A"]
\* a key of the registry with no connection under it
NoConn == [state |-> "none", queue |-> <<>>]
\* bytes a process can write: ASCII 'a', the lead byte and the continuation
\* byte of the two-byte UTF-8 encoding of U+00E9
Bytes == {97, 195, 169}

VARIABLES
    current_id,   \* ApiStateInner::current_id
    tasks,        \* ApiStateInner::tasks: id -> TaskData [chat_id, handle]
    pc,           \* position of each creation call
    chat,         \* chat_id argument of each creation call
    id,           \* local `id` of each creation call
    status,       \* Status behind each task's handle ("None" before Task::new)
    cancelSig,    \* what the control channel of each task has received
    timerFirst,   \* the deadline timer resolved before any cancel signal
    timer,        \* deadline of the timer the spawned future waits on
    evicted,      \* the task's spawned future has run tasks.remove(&task_id)
    now,          \* the clock, in seconds
    lastOp,       \* the latest cancel_task / task_status call and its result
    retBefore,    \* ids already returned when the call began
    cancelQueued, \* cancel_task reached the task's own record while Queued
    produced,     \* bytes the process has written to each stream
    conduit,      \* bytes buffered in each duplex conduit
    closed,       \* the write half of each conduit has been dropped
    rdone,        \* each reader has left its loop
    chunk,        \* each reader's buffer `chunk`
    segs,         \* the byte slices chunk[..n] each reader has read
    events,       \* messages handed to ConnectionManager::broadcast, in order
    conns,        \* ConnectionManager: each connection and its outbound queue
    lockq,        \* tasks: the RwLock's queue of waiters, oldest first
    holders,      \* tasks: who holds a guard of the RwLock
    rd,           \* each cancel_task / task_status request in progress
    ev,           \* position of each spawned future in its removal
    inserted      \* creation calls that have run tasks.insert

storeVars == <<current_id, tasks, pc, chat, id, retBefore, inserted>>
engineVars == <<status, cancelSig, timerFirst, timer, evicted, cancelQueued>>
pipeVars == <<produced, conduit, closed, rdone, chunk, segs, events, conns>>
lockVars == <<lockq, holders, rd, ev>>
vars == <<storeVars, engineVars, pipeVars, lockVars, now, lastOp>>

\* Option<T>
None == <<>>
Some(v) == <<v>>

NoOp == [op |-> "none"]

\* ------------------------------------------------------------ task store
\* TaskData { chat_id, handle }; the handle is named by the call that made it
TaskData(o, h) == [chat_id |-> o, handle |-> h]

\* calls are told apart only by their index: they begin in index order
InOrder(c) == \A d \in Calls : d < c => pc[d] # "idle"

\* ids a client asks about: those in the map, and one that is not
QueryIds == DOMAIN tasks \cup {UnknownId}

\* ids returned so far by creation calls
Returned == {id[d] : d \in {e \in Calls : pc[e] = "returned"}}

\* A signal reaches the control channel of task h: an explicit cancel, or the
\* closing of the channel when the handle is dropped (comment in run_task:
\* "dropping the handle ... expect it to be canceled").  A terminal task
\* ignores it; the first signal is the one the engine sees.
Deliver(h, sig) ==
    IF status[h] \in Terminal \/ cancelSig[h] # "none"
    THEN /\ UNCHANGED <<cancelSig, timerFirst>>
    ELSE /\ cancelSig' = [cancelSig EXCEPT ![h] = sig]
         /\ timerFirst' = [timerFirst EXCEPT ![h] =
                status[h] = "Running" /\ now >= timer[h]]

\* increment_current_task_id, first statement: current_id.load(Relaxed)
IncrementLoad(c) ==
    id' = [id EXCEPT ![c] = current_id]

\* run_task: called with chat_id o; the call starts with the load
RunTaskBegin(c, o) ==
    /\ pc[c] = "idle"
    /\ InOrder(c)
    /\ IncrementLoad(c)
    /\ chat' = [chat EXCEPT ![c] = o]
    /\ retBefore' = [retBefore EXCEPT ![c] = Returned]
    /\ pc' = [pc EXCEPT ![c] = "loaded"]
    /\ lastOp' = NoOp
    /\ UNCHANGED <<current_id, tasks, inserted, engineVars, now>>

\* run_download_task taking its id before the directory is created
RunDownloadTaskCreateDir_id_first(c, o, ok) ==
    /\ pc[c] = "idle"
    /\ InOrder(c)
    /\ chat' = [chat EXCEPT ![c] = o]
    /\ retBefore' = [retBefore EXCEPT ![c] = Returned]
    /\ current_id' = IF ok THEN current_id ELSE (current_id + 1) % IdModulus
    /\ pc' = [pc EXCEPT ![c] = IF ok THEN "dir_created" ELSE "io_error"]
    /\ lastOp' = NoOp
    /\ UNCHANGED <<tasks, inserted, id, engineVars, now>>

\* run_download_task: create_dir_all(&project_dir).await? succeeds or fails
RunDownloadTaskCreateDir(c, o, ok) ==
    /\ pc[c] = "idle"
    /\ InOrder(c)
    /\ chat' = [chat EXCEPT ![c] = o]
    /\ retBefore' = [retBefore EXCEPT ![c] = Returned]
    /\ pc' = [pc EXCEPT ![c] = IF ok THEN "dir_created" ELSE "io_error"]
    /\ lastOp' = NoOp
    /\ UNCHANGED <<current_id, tasks, inserted, id, engineVars, now>>

\* run_download_task after the directory exists: the load
RunDownloadTaskLoad(c) ==
    /\ pc[c] = "dir_created"
    /\ IncrementLoad(c)
    /\ pc' = [pc EXCEPT ![c] = "loaded"]
    /\ lastOp' = NoOp
    /\ UNCHANGED <<current_id, tasks, inserted, chat, retBefore, engineVars, now>>

\* increment_current_task_id, second statement: current_id.store(id + 1);
\* id + 1 on a u32 wraps in a release build
IncrementStore(c) ==
    /\ pc[c] = "loaded"
    /\ current_id' = (id[c] + 1) % IdModulus
    /\ pc' = [pc EXCEPT ![c] = "stored"]
    /\ lastOp' = NoOp
    /\ UNCHANGED <<tasks, inserted, chat, id, retBefore, engineVars, now>>

\* id + 1 on a u32 panics on overflow in a debug build: the call ends
IncrementPanic(c) ==
    /\ pc[c] = "loaded"
    /\ id[c] + 1 = IdModulus
    /\ pc' = [pc EXCEPT ![c] = "panicked"]
    /\ lastOp' = NoOp
    /\ UNCHANGED <<current_id, tasks, inserted, chat, id, retBefore, engineVars, now>>

\* Task::new, tasks.write().await, tasks.insert(id, task_data), tokio::spawn
\* and the return of the id; the write guard lives to the end of the call.
\* HashMap::insert replaces a record under the same key, dropping its handle.
Insert(c) ==
    /\ pc[c] = "stored"
    /\ tasks' = (id[c] :> TaskData(chat[c], c)) @@ tasks
    /\ status' = [status EXCEPT ![c] = "Queued"]
    /\ IF id[c] \in DOMAIN tasks
       THEN Deliver(tasks[id[c]].handle, "dropped")
       ELSE UNCHANGED <<cancelSig, timerFirst>>
    /\ pc' = [pc EXCEPT ![c] = "returned"]
    /\ inserted' = inserted \cup {c}
    /\ lastOp' = NoOp
    /\ UNCHANGED <<current_id, chat, id, retBefore, timer, evicted,
                   cancelQueued, now>>

\* the spawned future after the engine has returned: sleep(900), then
\* tasks.write().await and tasks.remove(&task_id), whatever record is there
Evict(c) ==
    /\ status[c] \in Terminal
    /\ ~evicted[c]
    /\ now >= timer[c]
    /\ tasks' = [k \in DOMAIN tasks \ {id[c]} |-> tasks[k]]
    /\ IF id[c] \in DOMAIN tasks
       THEN Deliver(tasks[id[c]].handle, "dropped")
       ELSE UNCHANGED <<cancelSig, timerFirst>>
    /\ evicted' = [evicted EXCEPT ![c] = TRUE]
    /\ timer' = [timer EXCEPT ![c] = 0]
    /\ lastOp' = NoOp
    /\ UNCHANGED <<current_id, pc, chat, id, retBefore, inserted, status, cancelQueued,
                   now>>

\* cancel_task: the value returned
cancel_task(i, o) ==
    IF i \in DOMAIN tasks /\ tasks[i].chat_id = o THEN Some(i) ELSE None

\* task_status answering an owner mismatch with a value of its own
task_status_forbidden(i, o) ==
    IF i \in DOMAIN tasks
    THEN IF tasks[i].chat_id = o
         THEN Some(status[tasks[i].handle])
         ELSE Some("Forbidden")
    ELSE None

\* task_status: the value returned
task_status(i, o) ==
    IF i \in DOMAIN tasks /\ tasks[i].chat_id = o
    THEN Some(status[tasks[i].handle])
    ELSE None

\* routes::status: ok_or(StatusCode::NOT_FOUND), else 200 with the status
status_route(r) ==
    IF r = None THEN [code |-> 404] ELSE [code |-> 200, status |-> r[1]]

\* cancel_task signalling any record with that id, whoever owns it
CancelTask_any_owner(i, o) ==
    /\ IF i \in DOMAIN tasks
       THEN /\ Deliver(tasks[i].handle, "cancel")
            /\ cancelQueued' = [cancelQueued EXCEPT ![tasks[i].handle] =
                   @ \/ status[tasks[i].handle] = "Queued"]
       ELSE UNCHANGED <<cancelSig, timerFirst, cancelQueued>>
    /\ lastOp' = [op |-> "cancel", id |-> i, chat_id |-> o,
                  result |-> cancel_task(i, o)]
    /\ UNCHANGED <<storeVars, status, timer, evicted, now>>

\* cancel_task reporting found without sending the signal
CancelTask_no_signal(i, o) ==
    /\ IF cancel_task(i, o) # None
       THEN /\ cancelQueued' = [cancelQueued EXCEPT ![tasks[i].handle] =
                   @ \/ status[tasks[i].handle] = "Queued"]
            /\ UNCHANGED <<cancelSig, timerFirst>>
       ELSE UNCHANGED <<cancelSig, timerFirst, cancelQueued>>
    /\ lastOp' = [op |-> "cancel", id |-> i, chat_id |-> o,
                  result |-> cancel_task(i, o)]
    /\ UNCHANGED <<storeVars, status, timer, evicted, now>>

\* cancel_task taking the record out of the map as it signals
CancelTask_takes_record(i, o) ==
    /\ IF cancel_task(i, o) # None
       THEN /\ Deliver(tasks[i].handle, "cancel")
            /\ cancelQueued' = [cancelQueued EXCEPT ![tasks[i].handle] =
                   @ \/ status[tasks[i].handle] = "Queued"]
            /\ tasks' = [k \in DOMAIN tasks \ {i} |-> tasks[k]]
       ELSE UNCHANGED <<cancelSig, timerFirst, cancelQueued, tasks>>
    /\ lastOp' = [op |-> "cancel", id |-> i, chat_id |-> o,
                  result |-> cancel_task(i, o)]
    /\ UNCHANGED <<current_id, pc, chat, id, retBefore, inserted, status, timer, evicted,
                   now>>

\* cancel_task: send_cancel_signal on a match, nothing otherwise
CancelTask(i, o) ==
    /\ IF cancel_task(i, o) # None
       THEN /\ Deliver(tasks[i].handle, "cancel")
            /\ cancelQueued' = [cancelQueued EXCEPT ![tasks[i].handle] =
                   @ \/ status[tasks[i].handle] = "Queued"]
       ELSE UNCHANGED <<cancelSig, timerFirst, cancelQueued>>
    /\ lastOp' = [op |-> "cancel", id |-> i, chat_id |-> o,
                  result |-> cancel_task(i, o)]
    /\ UNCHANGED <<storeVars, status, timer, evicted, now>>

\* task_status, as served by routes::status
TaskStatus(i, o) ==
    /\ lastOp' = [op |-> "status", id |-> i, chat_id |-> o,
                  result |-> task_status(i, o),
                  http |-> status_route(task_status(i, o))]
    /\ UNCHANGED <<storeVars, engineVars, now>>

\* ------------------------------------------------------ execution engine
\* the engine commits the terminal status st and returns; the spawned
\* future goes on to sleep(900)
Finish(c, st) ==
    /\ status' = [status EXCEPT ![c] = st]
    /\ timer' = [timer EXCEPT ![c] = now + RetentionDelay]

\* the spawned future is first polled: Queued -> Running, the timer starts
EngineStart(c) ==
    /\ status[c] = "Queued"
    /\ status' = [status EXCEPT ![c] = "Running"]
    /\ timer' = [timer EXCEPT ![c] = now + Timeout]
    /\ lastOp' = NoOp
    /\ UNCHANGED <<storeVars, cancelSig, timerFirst, evicted, cancelQueued, now>>

\* the unit of work resolves before the deadline: exit 0 or not
EngineWorkDone(c, ok) ==
    /\ status[c] = "Running"
    /\ now < timer[c]
    /\ Finish(c, IF ok THEN "Completed" ELSE "Failed")
    /\ lastOp' = NoOp
    /\ UNCHANGED <<storeVars, cancelSig, timerFirst, evicted, cancelQueued, now>>

\* the cancel signal resolved first
EngineCancelled(c) ==
    /\ status[c] = "Running"
    /\ cancelSig[c] # "none"
    /\ ~timerFirst[c]
    /\ Finish(c, "Cancelled")
    /\ lastOp' = NoOp
    /\ UNCHANGED <<storeVars, cancelSig, timerFirst, evicted, cancelQueued, now>>

\* the deadline timer resolved first
EngineTimedOut(c) ==
    /\ status[c] = "Running"
    /\ now >= timer[c]
    /\ cancelSig[c] = "none" \/ timerFirst[c]
    /\ Finish(c, "TimedOut")
    /\ lastOp' = NoOp
    /\ UNCHANGED <<storeVars, cancelSig, timerFirst, evicted, cancelQueued, now>>

\* time passes
Tick ==
    /\ now + TickStep <= MaxTime
    /\ now' = now + TickStep
    /\ lastOp' = NoOp
    /\ UNCHANGED <<storeVars, engineVars>>

\* ------------------------------------------------------- the store's spec
IdlePipe ==
    /\ produced = [s \in IoTypes |-> <<>>]
    /\ conduit = [s \in IoTypes |-> <<>>]
    /\ closed = [s \in IoTypes |-> FALSE]
    /\ rdone = [s \in IoTypes |-> FALSE]
    /\ chunk = [s \in IoTypes |-> [k \in 1..ReadBuf |-> 0]]
    /\ segs = [s \in IoTypes |-> <<>>]
    /\ events = <<>>
    /\ conns = [k \in ConnIds |-> NoConn]

\* nobody waits for the lock of tasks or holds it
IdleLock ==
    /\ lockq = <<>>
    /\ holders = {}
    /\ rd = [q \in Readers |-> NoRequest]
    /\ ev = [c \in Calls |-> "idle"]

Init ==
    /\ current_id \in {0, IdModulus - 1}
    /\ tasks = <<>>
    /\ pc = [c \in Calls |-> "idle"]
    /\ chat = [c \in Calls |-> "A"]
    /\ id = [c \in Calls |-> 0]
    /\ retBefore = [c \in Calls |-> {}]
    /\ inserted = {}
    /\ status = [c \in Calls |-> "None"]
    /\ cancelSig = [c \in Calls |-> "none"]
    /\ timerFirst = [c \in Calls |-> FALSE]
    /\ timer = [c \in Calls |-> 0]
    /\ evicted = [c \in Calls |-> FALSE]
    /\ cancelQueued = [c \in Calls |-> FALSE]
    /\ now = 0
    /\ lastOp = NoOp
    /\ IdlePipe
    /\ IdleLock

Next ==
    \/ \E c \in Calls, o \in ChatIds : RunTaskBegin(c, o) /\ UNCHANGED <<pipeVars, lockVars>>
    \/ \E c \in Calls, o \in ChatIds, ok \in BOOLEAN :
           RunDownloadTaskCreateDir(c, o, ok) /\ UNCHANGED <<pipeVars, lockVars>>
    \/ \E c \in Calls : RunDownloadTaskLoad(c) /\ UNCHANGED <<pipeVars, lockVars>>
    \/ \E c \in Calls : IncrementStore(c) /\ UNCHANGED <<pipeVars, lockVars>>
    \/ \E c \in Calls : IncrementPanic(c) /\ UNCHANGED <<pipeVars, lockVars>>
    \/ \E c \in Calls : Insert(c) /\ UNCHANGED <<pipeVars, lockVars>>
    \/ \E c \in Calls : EngineStart(c) /\ UNCHANGED <<pipeVars, lockVars>>
    \/ \E c \in Calls, ok \in BOOLEAN : EngineWorkDone(c, ok) /\ UNCHANGED <<pipeVars, lockVars>>
    \/ \E c \in Calls : EngineCancelled(c) /\ UNCHANGED <<pipeVars, lockVars>>
    \/ \E c \in Calls : EngineTimedOut(c) /\ UNCHANGED <<pipeVars, lockVars>>
    \/ \E c \in Calls : Evict(c) /\ UNCHANGED <<pipeVars, lockVars>>
    \/ \E i \in QueryIds, o \in ChatIds : CancelTask(i, o) /\ UNCHANGED <<pipeVars, lockVars>>
    \/ \E i \in QueryIds, o \in ChatIds : TaskStatus(i, o) /\ UNCHANGED <<pipeVars, lockVars>>
    \/ Tick /\ UNCHANGED <<pipeVars, lockVars>>

Spec == Init /\ [][Next]_vars

TypeOK ==
    /\ current_id \in 0..(IdModulus - 1)
    /\ DOMAIN tasks \subseteq IdSpace
    /\ \A c \in Calls : status[c] \in {"None", "Queued", "Running"} \cup Terminal

\* -------------------------------------------------------- output pipeline
\* the process task whose output is followed
PipeTask == 1

Min(a, b) == IF a < b THEN a ELSE b

\* String::from_utf8_lossy on the one- and two-byte forms, which are all that
\* Bytes can make: a text is the sequence of its code points, and a byte that
\* starts no complete sequence becomes U+FFFD
RECURSIVE from_utf8_lossy(_)
from_utf8_lossy(bs) ==
    IF bs = <<>> THEN <<>>
    ELSE IF bs[1] < 128 THEN <<bs[1]>> \o from_utf8_lossy(Tail(bs))
    ELSE IF /\ bs[1] \in 194..223
            /\ Len(bs) >= 2
            /\ bs[2] \in 128..191
         THEN <<(bs[1] - 192) * 64 + (bs[2] - 128)>>
                  \o from_utf8_lossy(Tail(Tail(bs)))
    ELSE <<65533>> \o from_utf8_lossy(Tail(bs))

\* the bytes of a String: the UTF-8 encoding of its code points
RECURSIVE Utf8Bytes(_)
Utf8Bytes(text) ==
    IF text = <<>> THEN <<>>
    ELSE LET cp == text[1] IN
         (IF cp < 128 THEN <<cp>>
          ELSE IF cp < 2048 THEN <<192 + (cp \div 64), 128 + (cp % 64)>>
          ELSE <<224 + (cp \div 4096), 128 + ((cp \div 64) % 64),
                 128 + (cp % 64)>>)
         \o Utf8Bytes(Tail(text))

\* the whole buffer decoded, not the n bytes just read
ChunkText_whole_buffer(buf, n) == from_utf8_lossy(buf)

\* String::from_utf8_lossy(&chunk[..n]).to_string()
ChunkText(buf, n) == from_utf8_lossy(SubSeq(buf, 1, n))

\* ServerMessage::TaskIoChunk(TaskIoChunk { id, chunk, io_type })
TaskIoChunk(i, text, s) == [id |-> i, chunk |-> text, io_type |-> s]

\* nonempty byte sequences of length at most n
Bursts(n) == UNION {[1..k -> Bytes] : k \in 1..n}

\* the running process writes a burst to one of its streams; the conduit
\* takes what fits in its capacity
ProcWrite(s, bs) ==
    /\ status[PipeTask] = "Running"
    /\ ~closed[s]
    /\ Len(conduit[s]) + Len(bs) <= DuplexCap
    /\ Len(produced["Stdout"]) + Len(produced["Stderr"]) + Len(bs) <= MaxOutput
    /\ conduit' = [conduit EXCEPT ![s] = @ \o bs]
    /\ produced' = [produced EXCEPT ![s] = @ \o bs]
    /\ lastOp' = NoOp
    /\ UNCHANGED <<storeVars, engineVars, now, closed, rdone, chunk, segs, events,
                   conns>>

\* ConnectionManager::broadcast: the message is put on the outbound queue of
\* every registered connection that is open and has room; a full or closed
\* queue drops this delivery and nothing else
broadcast(cs, msg) ==
    [k \in ConnIds |->
        IF cs[k].state = "open" /\ Len(cs[k].queue) < QueueCap
        THEN [cs[k] EXCEPT !.queue = Append(@, msg)]
        ELSE cs[k]]

\* both readers tagging their messages IoType::Stdout
ReadChunk_stdout_tag(s) ==
    /\ ~rdone[s]
    /\ Len(conduit[s]) > 0
    /\ LET n == Min(Len(conduit[s]), ReadBuf)
           buf == SubSeq(conduit[s], 1, n) \o SubSeq(chunk[s], n + 1, ReadBuf)
       IN /\ chunk' = [chunk EXCEPT ![s] = buf]
          /\ conduit' = [conduit EXCEPT ![s] = SubSeq(@, n + 1, Len(@))]
          /\ segs' = [segs EXCEPT ![s] = Append(@, SubSeq(conduit[s], 1, n))]
          /\ events' = Append(events,
                 TaskIoChunk(id[PipeTask], ChunkText(buf, n), "Stdout"))
          /\ conns' = broadcast(conns,
                 TaskIoChunk(id[PipeTask], ChunkText(buf, n), "Stdout"))
    /\ lastOp' = NoOp
    /\ UNCHANGED <<storeVars, engineVars, now, produced, closed, rdone>>

\* the reader awaiting room in every open connection's queue before it sends
ReadChunk_awaits_send(s) ==
    /\ ~rdone[s]
    /\ Len(conduit[s]) > 0
    /\ \A k \in ConnIds :
          conns[k].state = "open" => Len(conns[k].queue) < QueueCap
    /\ LET n == Min(Len(conduit[s]), ReadBuf)
           buf == SubSeq(conduit[s], 1, n) \o SubSeq(chunk[s], n + 1, ReadBuf)
           msg == TaskIoChunk(id[PipeTask], ChunkText(buf, n), s)
       IN /\ chunk' = [chunk EXCEPT ![s] = buf]
          /\ conduit' = [conduit EXCEPT ![s] = SubSeq(@, n + 1, Len(@))]
          /\ segs' = [segs EXCEPT ![s] = Append(@, SubSeq(conduit[s], 1, n))]
          /\ events' = Append(events, msg)
          /\ conns' = broadcast(conns, msg)
    /\ lastOp' = NoOp
    /\ UNCHANGED <<storeVars, engineVars, now, produced, closed, rdone>>

\* reader loop, Ok(n) with n > 0: read(&mut chunk) takes what is buffered, up
\* to the size of chunk, and the message goes to broadcast, which returns
\* without being awaited
ReadChunk(s) ==
    /\ ~rdone[s]
    /\ Len(conduit[s]) > 0
    /\ LET n == Min(Len(conduit[s]), ReadBuf)
           buf == SubSeq(conduit[s], 1, n) \o SubSeq(chunk[s], n + 1, ReadBuf)
           msg == TaskIoChunk(id[PipeTask], ChunkText(buf, n), s)
       IN /\ chunk' = [chunk EXCEPT ![s] = buf]
          /\ conduit' = [conduit EXCEPT ![s] = SubSeq(@, n + 1, Len(@))]
          /\ segs' = [segs EXCEPT ![s] = Append(@, SubSeq(conduit[s], 1, n))]
          /\ events' = Append(events, msg)
          /\ conns' = broadcast(conns, msg)
    /\ lastOp' = NoOp
    /\ UNCHANGED <<storeVars, engineVars, now, produced, closed, rdone>>

\* reader loop, Ok(0): the conduit is empty and its write half is dropped
ReadEof(s) ==
    /\ ~rdone[s]
    /\ Len(conduit[s]) = 0
    /\ closed[s]
    /\ rdone' = [rdone EXCEPT ![s] = TRUE]
    /\ lastOp' = NoOp
    /\ UNCHANGED <<storeVars, engineVars, now, produced, conduit, closed, chunk,
                   segs, events, conns>>

\* run_os_process returns and the write halves stay open
DropWriters_keep_open ==
    /\ closed' = closed
    /\ UNCHANGED <<produced, conduit, rdone, chunk, segs, events, conns>>

\* run_os_process returns: stdout_tx and stderr_tx are dropped
DropWriters ==
    /\ closed' = [s \in IoTypes |-> TRUE]
    /\ UNCHANGED <<produced, conduit, rdone, chunk, segs, events, conns>>

\* run_task("A") has returned id 0 from a fresh store
PipeInit ==
    /\ current_id = 1
    /\ tasks = (0 :> TaskData("A", PipeTask))
    /\ pc = [c \in Calls |-> IF c = PipeTask THEN "returned" ELSE "idle"]
    /\ chat = [c \in Calls |-> "A"]
    /\ id = [c \in Calls |-> 0]
    /\ retBefore = [c \in Calls |-> {}]
    /\ inserted = {PipeTask}
    /\ status = [c \in Calls |-> IF c = PipeTask THEN "Queued" ELSE "None"]
    /\ cancelSig = [c \in Calls |-> "none"]
    /\ timerFirst = [c \in Calls |-> FALSE]
    /\ timer = [c \in Calls |-> 0]
    /\ evicted = [c \in Calls |-> FALSE]
    /\ cancelQueued = [c \in Calls |-> FALSE]
    /\ now = 0
    /\ lastOp = NoOp
    /\ IdlePipe
    /\ IdleLock

PipeNext ==
    \/ EngineStart(PipeTask) /\ UNCHANGED <<pipeVars, lockVars>>
    \/ \E ok \in BOOLEAN : EngineWorkDone(PipeTask, ok) /\ DropWriters /\ UNCHANGED lockVars
    \/ EngineCancelled(PipeTask) /\ DropWriters /\ UNCHANGED lockVars
    \/ EngineTimedOut(PipeTask) /\ DropWriters /\ UNCHANGED lockVars
    \/ \E i \in DOMAIN tasks : CancelTask(i, tasks[i].chat_id) /\ UNCHANGED <<pipeVars, lockVars>>
    \/ Tick /\ UNCHANGED <<pipeVars, lockVars>>
    \/ \E s \in IoTypes, bs \in Bursts(MaxOutput) : ProcWrite(s, bs) /\ UNCHANGED lockVars
    \/ \E s \in IoTypes : ReadChunk(s) /\ UNCHANGED lockVars
    \/ \E s \in IoTypes : ReadEof(s) /\ UNCHANGED lockVars

PipeSpec == PipeInit /\ [][PipeNext]_vars

\* ------------------------------------------------ the connection registry
notConns == <<storeVars, engineVars, produced, conduit, closed, rdone, chunk,
              segs, events, now>>

\* ApiState::accept_connection: a listener is registered with an empty queue
accept_connection(k) ==
    /\ conns[k].state = "none"
    /\ conns' = [conns EXCEPT ![k] = [state |-> "open", queue |-> <<>>]]
    /\ lastOp' = NoOp
    /\ UNCHANGED notConns

\* the connection's outbound pump takes the oldest message off its queue
ConnPump(k) ==
    /\ conns[k].state = "open"
    /\ conns[k].queue # <<>>
    /\ conns' = [conns EXCEPT ![k].queue = Tail(@)]
    /\ lastOp' = NoOp
    /\ UNCHANGED notConns

\* the connection's transport breaks: its queue no longer takes messages
ConnBreak(k) ==
    /\ conns[k].state = "open"
    /\ conns' = [conns EXCEPT ![k] = [state |-> "closed", queue |-> <<>>]]
    /\ lastOp' = NoOp
    /\ UNCHANGED notConns

\* the closed connection is removed from the registry
ConnRemove(k) ==
    /\ conns[k].state = "closed"
    /\ conns' = [conns EXCEPT ![k] = NoConn]
    /\ lastOp' = NoOp
    /\ UNCHANGED notConns

\* the process task of PipeInit with listeners coming, lagging and going
BroadcastNext ==
    \/ EngineStart(PipeTask) /\ UNCHANGED <<pipeVars, lockVars>>
    \/ \E ok \in BOOLEAN : EngineWorkDone(PipeTask, ok) /\ DropWriters /\ UNCHANGED lockVars
    \/ \E s \in IoTypes, bs \in Bursts(MaxOutput) : ProcWrite(s, bs) /\ UNCHANGED lockVars
    \/ \E s \in IoTypes : ReadChunk(s) /\ UNCHANGED lockVars
    \/ \E s \in IoTypes : ReadEof(s) /\ UNCHANGED lockVars
    \/ \E k \in ConnIds : accept_connection(k) /\ UNCHANGED lockVars
    \/ \E k \in ConnIds : ConnPump(k) /\ UNCHANGED lockVars
    \/ \E k \in ConnIds : ConnBreak(k) /\ UNCHANGED lockVars
    \/ \E k \in ConnIds : ConnRemove(k) /\ UNCHANGED lockVars

BroadcastSpec == PipeInit /\ [][BroadcastNext]_vars

\* ------------------------------------------------- the RwLock around tasks
\* who asks for the lock: a creation call, the spawned future of a call for
\* its removal, or a cancel_task / task_status request
Creator(c) == [kind |-> "create", n |-> c]
Evictor(c) == [kind |-> "evict", n |-> c]
Reader(q) == [kind |-> "read", n |-> q]

\* tasks.write() in run_task, run_download_task and the spawned futures,
\* tasks.read() in cancel_task and task_status
Mode(w) == IF w.kind = "read" THEN "read" ELSE "write"

\* a write guard is granted while guards of any kind are out
CanAcquire_shared_write(w) ==
    /\ lockq # <<>>
    /\ Head(lockq) = w
    /\ \A h \in holders : Mode(h) = "read"

\* tokio::sync::RwLock: waiters are served oldest first; a write guard is
\* granted when no guard is out, a read guard when no write guard is out
CanAcquire(w) ==
    /\ lockq # <<>>
    /\ Head(lockq) = w
    /\ IF Mode(w) = "write"
       THEN holders = {}
       ELSE \A h \in holders : Mode(h) = "read"

\* .read().await / .write().await is first polled
Request(w) ==
    /\ lockq' = Append(lockq, w)
    /\ UNCHANGED holders

\* the guard is granted
Acquire(w) ==
    /\ CanAcquire(w)
    /\ lockq' = Tail(lockq)
    /\ holders' = holders \cup {w}

\* the guard is dropped
Release(w) ==
    /\ holders' = holders \ {w}
    /\ UNCHANGED lockq

\* Task::new, then self.tasks.write() is awaited
LkRequest(c) ==
    /\ pc[c] = "stored"
    /\ status' = [status EXCEPT ![c] = "Queued"]
    /\ pc' = [pc EXCEPT ![c] = "waiting"]
    /\ Request(Creator(c))
    /\ lastOp' = NoOp
    /\ UNCHANGED <<current_id, tasks, chat, id, retBefore, inserted, cancelSig,
                   timerFirst, timer, evicted, cancelQueued, now, rd, ev>>

\* the creation call gets the write guard
LkAcquire(c) ==
    /\ pc[c] = "waiting"
    /\ Acquire(Creator(c))
    /\ pc' = [pc EXCEPT ![c] = "locked"]
    /\ lastOp' = NoOp
    /\ UNCHANGED <<current_id, tasks, chat, id, retBefore, inserted, engineVars,
                   now, rd, ev>>

\* tasks.insert(id, task_data) under the write guard; a record replaced under
\* the same key drops its handle
LkInsert(c) ==
    /\ pc[c] = "locked"
    /\ tasks' = (id[c] :> TaskData(chat[c], c)) @@ tasks
    /\ IF id[c] \in DOMAIN tasks
       THEN Deliver(tasks[id[c]].handle, "dropped")
       ELSE UNCHANGED <<cancelSig, timerFirst>>
    /\ inserted' = inserted \cup {c}
    /\ pc' = [pc EXCEPT ![c] = "inserted"]
    /\ lastOp' = NoOp
    /\ UNCHANGED <<current_id, chat, id, retBefore, status, timer, evicted,
                   cancelQueued, now, lockVars>>

\* tokio::spawn runs before tasks.insert
LkSpawn_before_insert(c) ==
    /\ pc[c] = "locked"
    /\ pc' = [pc EXCEPT ![c] = "spawned"]
    /\ lastOp' = NoOp
    /\ UNCHANGED <<current_id, tasks, chat, id, retBefore, inserted, engineVars,
                   now, lockVars>>

\* tokio::spawn of the future that runs the task and later removes it
LkSpawn(c) ==
    /\ pc[c] = "inserted"
    /\ pc' = [pc EXCEPT ![c] = "spawned"]
    /\ lastOp' = NoOp
    /\ UNCHANGED <<current_id, tasks, chat, id, retBefore, inserted, engineVars,
                   now, lockVars>>

\* the call returns its id; the write guard is dropped at the end of the call
LkReturn(c) ==
    /\ pc[c] = "spawned"
    /\ Release(Creator(c))
    /\ pc' = [pc EXCEPT ![c] = "returned"]
    /\ lastOp' = NoOp
    /\ UNCHANGED <<current_id, tasks, chat, id, retBefore, inserted, engineVars,
                   now, rd, ev>>

\* the spawned future is polled only once it has been spawned
Spawned(c) == pc[c] \in {"spawned", "returned"}

\* sleep(900) has elapsed: the spawned future awaits tasks.write()
EvRequest(c) ==
    /\ status[c] \in Terminal
    /\ ~evicted[c]
    /\ now >= timer[c]
    /\ ev[c] = "idle"
    /\ ev' = [ev EXCEPT ![c] = "waiting"]
    /\ Request(Evictor(c))
    /\ lastOp' = NoOp
    /\ UNCHANGED <<storeVars, engineVars, now, rd>>

\* the spawned future gets the write guard
EvAcquire(c) ==
    /\ ev[c] = "waiting"
    /\ Acquire(Evictor(c))
    /\ ev' = [ev EXCEPT ![c] = "holding"]
    /\ lastOp' = NoOp
    /\ UNCHANGED <<storeVars, engineVars, now, rd>>

\* tasks.remove(&task_id), and the guard is dropped as the future ends
EvRemove(c) ==
    /\ ev[c] = "holding"
    /\ Evict(c)
    /\ Release(Evictor(c))
    /\ ev' = [ev EXCEPT ![c] = "done"]
    /\ UNCHANGED rd

\* cancel_task / task_status is called and awaits self.tasks.read()
RdRequest(q, op, i, o) ==
    /\ rd[q].pc = "idle"
    /\ \A r \in Readers : r < q => rd[r].pc # "idle"
    /\ rd' = [rd EXCEPT ![q] = [pc |-> "waiting", op |-> op, id |-> i,
                                chat_id |-> o]]
    /\ Request(Reader(q))
    /\ lastOp' = NoOp
    /\ UNCHANGED <<storeVars, engineVars, now, ev>>

\* the request gets a read guard
RdAcquire(q) ==
    /\ rd[q].pc = "waiting"
    /\ Acquire(Reader(q))
    /\ rd' = [rd EXCEPT ![q].pc = "holding"]
    /\ lastOp' = NoOp
    /\ UNCHANGED <<storeVars, engineVars, now, ev>>

\* the body of cancel_task / task_status under the read guard, which is
\* dropped as the call returns
RdFinish(q) ==
    /\ rd[q].pc = "holding"
    /\ IF rd[q].op = "cancel"
       THEN CancelTask(rd[q].id, rd[q].chat_id)
       ELSE TaskStatus(rd[q].id, rd[q].chat_id)
    /\ Release(Reader(q))
    /\ rd' = [rd EXCEPT ![q] = NoRequest]
    /\ UNCHANGED ev

\* the store with every acquisition and release of the lock as a step
LockInit ==
    /\ Init
    /\ current_id = 0

LockNext ==
    \/ \E c \in Calls : RunTaskBegin(c, "A") /\ UNCHANGED <<pipeVars, lockVars>>
    \/ \E c \in Calls : IncrementStore(c) /\ UNCHANGED <<pipeVars, lockVars>>
    \/ \E c \in Calls : LkRequest(c) /\ UNCHANGED pipeVars
    \/ \E c \in Calls : LkAcquire(c) /\ UNCHANGED pipeVars
    \/ \E c \in Calls : LkInsert(c) /\ UNCHANGED pipeVars
    \/ \E c \in Calls : LkSpawn(c) /\ UNCHANGED pipeVars
    \/ \E c \in Calls : LkReturn(c) /\ UNCHANGED pipeVars
    \/ \E c \in Calls :
           Spawned(c) /\ EngineStart(c) /\ UNCHANGED <<pipeVars, lockVars>>
    \/ \E c \in Calls, ok \in BOOLEAN :
           EngineWorkDone(c, ok) /\ UNCHANGED <<pipeVars, lockVars>>
    \/ \E c \in Calls : EngineCancelled(c) /\ UNCHANGED <<pipeVars, lockVars>>
    \/ \E c \in Calls : EngineTimedOut(c) /\ UNCHANGED <<pipeVars, lockVars>>
    \/ \E c \in Calls : EvRequest(c) /\ UNCHANGED pipeVars
    \/ \E c \in Calls : EvAcquire(c) /\ UNCHANGED pipeVars
    \/ \E c \in Calls : EvRemove(c) /\ UNCHANGED pipeVars
    \/ \E q \in Readers, op \in {"cancel", "status"}, i \in DOMAIN tasks :
           RdRequest(q, op, i, "A") /\ UNCHANGED pipeVars
    \/ \E q \in Readers : RdAcquire(q) /\ UNCHANGED pipeVars
    \/ \E q \in Readers : RdFinish(q) /\ UNCHANGED pipeVars
    \/ Tick /\ UNCHANGED <<pipeVars, lockVars>>

LockSpec == LockInit /\ [][LockNext]_vars

\* ------------------------------------- a process task from call to removal
\* the steps of creation calls after their first
CreateStep(c) ==
    \/ IncrementStore(c) /\ UNCHANGED lockVars
    \/ LkRequest(c)
    \/ LkAcquire(c)
    \/ LkInsert(c)
    \/ LkSpawn(c)
    \/ LkReturn(c)

\* the engine of the process task starts, and ends in one of its four ways,
\* run_os_process returning
EngineStep ==
    \/ Spawned(PipeTask) /\ EngineStart(PipeTask) /\ UNCHANGED pipeVars
    \/ \E ok \in BOOLEAN : EngineWorkDone(PipeTask, ok) /\ DropWriters
    \/ EngineCancelled(PipeTask) /\ DropWriters
    \/ EngineTimedOut(PipeTask) /\ DropWriters

\* the readers of the process task
ReaderStep(s) == ReadChunk(s) \/ ReadEof(s)

\* the steps of the removal once it has asked for the lock
EvictStep(c) == EvAcquire(c) \/ EvRemove(c)

\* the steps of a request once it has asked for the lock
RequestStep(q) == RdAcquire(q) \/ RdFinish(q)

FairNext ==
    \/ RunTaskBegin(PipeTask, "A") /\ UNCHANGED <<pipeVars, lockVars>>
    \/ CreateStep(PipeTask) /\ UNCHANGED pipeVars
    \/ EngineStep /\ UNCHANGED lockVars
    \/ \E s \in IoTypes :
           ProcWrite(s, [k \in 1..DuplexCap |-> 97]) /\ UNCHANGED lockVars
    \/ \E s \in IoTypes : ReaderStep(s) /\ UNCHANGED lockVars
    \/ EvRequest(PipeTask) /\ UNCHANGED pipeVars
    \/ EvictStep(PipeTask) /\ UNCHANGED pipeVars
    \/ \E q \in Readers, op \in {"cancel", "status"}, i \in DOMAIN tasks :
           RdRequest(q, op, i, "A") /\ UNCHANGED pipeVars
    \/ \E q \in Readers : RequestStep(q) /\ UNCHANGED pipeVars
    \/ Tick /\ UNCHANGED <<pipeVars, lockVars>>

\* the runtime goes on polling every future that can make progress: the
\* creation call, the readers, the removal and the requests
Fairness ==
    /\ WF_vars(CreateStep(PipeTask) /\ UNCHANGED pipeVars)
    /\ \A s \in IoTypes : WF_vars(ReaderStep(s) /\ UNCHANGED lockVars)
    /\ WF_vars(EvictStep(PipeTask) /\ UNCHANGED pipeVars)
    /\ \A q \in Readers : WF_vars(RequestStep(q) /\ UNCHANGED pipeVars)

FairSpec == LockInit /\ [][FairNext]_vars /\ Fairness

\* ================================================================ claims
\* a creation call has returned its id and the record has not been evicted
Live(c) == pc[c] = "returned" /\ ~evicted[c]

\* status and cancel by the owner of call c's task do not return notFound
HasRecord(c) ==
    /\ task_status(id[c], chat[c]) # None
    /\ cancel_task(id[c], chat[c]) # None

\* the concatenation of a sequence of sequences
RECURSIVE Concat(_)
Concat(ss) == IF ss = <<>> THEN <<>> ELSE ss[1] \o Concat(Tail(ss))

\* the messages of one stream, in broadcast order
StreamEvents(s) == SelectSeq(events, LAMBDA e : e.io_type = s)

\* the text payloads of one stream, in broadcast order
StreamTexts(s) == [k \in 1..Len(StreamEvents(s)) |-> StreamEvents(s)[k].chunk]

\* C1: no two tasks that are live at the same time (created and not yet
\* evicted) have the same task id, for any interleaving of creation calls.
C1_LiveIdsDistinct ==
    \A c, d \in Calls : (c # d /\ Live(c) /\ Live(d)) => id[c] # id[d]

OwnerFinds(i) == i \in DOMAIN tasks /\ cancel_task(i, tasks[i].chat_id) = Some(i)

C4_RecordPresentUntilRetentionEnds ==
    \A c \in Calls : pc[c] = "returned" =>
        /\ status[c] \notin Terminal => HasRecord(c)
        /\ (status[c] \in Terminal /\ ~evicted[c] /\ now <= timer[c])
               => HasRecord(c)
        /\ (status[c] \in Terminal /\ (evicted[c] \/ now > timer[c]))
               => ~HasRecord(c)

\* C5: the owner stored under a task id never changes for as long as a
\* record exists under that id.
C5_OwnerNeverChanges ==
    [][\A i \in DOMAIN tasks :
          i \in DOMAIN tasks' => tasks'[i].chat_id = tasks[i].chat_id]_vars

\* C6: a creation call that begins after another has returned gets a
\* numerically greater id.
C6_IdsStrictlyIncreasing ==
    \A c \in Calls : pc[c] = "returned" => \A r \in retBefore[c] : id[c] > r

\* the deadline of the running task has passed with no cancel signal before it
Exceeded(c) ==
    /\ status[c] = "Running"
    /\ now >= timer[c]
    /\ cancelSig[c] = "none" \/ timerFirst[c]

\* C7: a process task whose work exceeds its timeout ends TimedOut, and once
\* its status is TimedOut no further chunk event is broadcast for it.
C7_TimedOutThenSilent ==
    [][/\ (Exceeded(PipeTask) /\ status'[PipeTask] \in Terminal)
            => status'[PipeTask] = "TimedOut"
       /\ status[PipeTask] = "TimedOut" => events' = events]_vars

\* C8: for each stream the chunk events carry the bytes the process wrote in
\* the order written: the slices read, followed by what is still buffered,
\* are the bytes written, and the k-th event of the stream is the text of the
\* k-th slice.
C8_ChunksInWriteOrder ==
    \A s \in IoTypes :
        /\ Concat(segs[s]) \o conduit[s] = produced[s]
        /\ Len(StreamEvents(s)) = Len(segs[s])
        /\ \A k \in 1..Len(segs[s]) :
               /\ segs[s][k] # <<>>
               /\ StreamEvents(s)[k].chunk = from_utf8_lossy(segs[s][k])

\* C8 witness: stdout was read in two chunks and stderr in one.
C8_Witness ==
    /\ Len(segs["Stdout"]) = 2
    /\ Len(segs["Stderr"]) = 1
    /\ Len(events) = 3

\* the bytes are the UTF-8 encoding of some text
ValidUtf8(bs) == Utf8Bytes(from_utf8_lossy(bs)) = bs

\* C9: once the stdout reader has finished, the text payloads of the stdout
\* chunks, concatenated in emission order, are the bytes the process wrote,
\* however the reads split them (stated for output that is valid UTF-8).
C9_ConcatReproducesBytes ==
    (rdone["Stdout"] /\ ValidUtf8(produced["Stdout"]))
        => Utf8Bytes(Concat(StreamTexts("Stdout"))) = produced["Stdout"]

C11_TerminalStatusSticks ==
    [][\A i \in DOMAIN tasks : \A o \in ChatIds :
          (task_status(i, o) # None /\ task_status(i, o)[1] \in Terminal)
          => \/ task_status(i, o)' = task_status(i, o)
             \/ task_status(i, o)' = None]_vars

C13_CancelledOnlyOnRequest ==
    \A c \in Calls : status[c] = "Cancelled" => cancelSig[c] = "cancel"

\* the record made by call c is in the map
OwnRecord(c) == id[c] \in DOMAIN tasks /\ tasks[id[c]].handle = c

\* C14: a task's record leaves the map only through the task's own
\* eviction, once, after the task is terminal and the retention wait is
\* over; cancel_task neither removes a record nor touches the wait.
C14_RemovedOnlyByOwnEviction ==
    [][/\ \A c \in Calls :
             (OwnRecord(c) /\ ~OwnRecord(c)')
             => /\ ~evicted[c] /\ evicted'[c]
                /\ status[c] \in Terminal
                /\ now >= timer[c]
       /\ \A c \in Calls : (evicted'[c] /\ ~evicted[c]) => OwnRecord(c)
       /\ lastOp'.op = "cancel"
             => (tasks' = tasks /\ timer' = timer /\ evicted' = evicted)]_vars

\* C16: when create_dir_all fails in run_download_task the call ends with
\* the error and the store is as before: the counter, the map, and every
\* task's engine and eviction state are unchanged, and the call never gets
\* an id, a record or an engine.
C16_DirFailureLeavesStore ==
    [][\A c \in Calls : pc'[c] = "io_error" =>
          /\ pc[c] \in {"idle", "io_error"}
          /\ pc[c] = "idle" =>
                /\ current_id' = current_id
                /\ tasks' = tasks
                /\ engineVars' = engineVars
          /\ status'[c] = "None"
          /\ \A i \in DOMAIN tasks' : tasks'[i].handle # c]_vars

\* C16 witness: a download call failed on its directory next to a call
\* whose task is in the store.
C16_Witness ==
    \E c, d \in Calls :
        /\ pc[c] = "io_error"
        /\ pc[d] = "returned"
        /\ OwnRecord(d)
        /\ current_id = (id[d] + 1) % IdModulus

\* the other stream
Other(s) == IF s = "Stdout" THEN "Stderr" ELSE "Stdout"

\* what the readers do in a step, with the payload measured by size: a read
\* by the reader of s adds one slice of 1..ReadBuf bytes and one message,
\* tagged s and the task's id, whose payload is the text of the slice, not
\* empty and of size at most ReadBuf; nothing else adds a message; a reader
\* that ends adds none and leaves the other reader, the conduits and the
\* status alone.
ReaderSteps(size(_)) ==
    /\ \A s \in IoTypes : segs'[s] # segs[s] =>
          /\ segs'[Other(s)] = segs[Other(s)]
          /\ Len(segs'[s]) = Len(segs[s]) + 1
          /\ LET seg == segs'[s][Len(segs'[s])]
                 msg == events'[Len(events')]
             IN /\ Len(seg) \in 1..ReadBuf
                /\ events' = Append(events, msg)
                /\ msg.id = id[PipeTask]
                /\ msg.io_type = s
                /\ msg.chunk = from_utf8_lossy(seg)
                /\ msg.chunk # <<>>
                /\ size(msg.chunk) <= ReadBuf
    /\ segs' = segs => events' = events
    /\ \A s \in IoTypes : rdone'[s] # rdone[s] =>
          /\ events' = events
          /\ rdone'[Other(s)] = rdone[Other(s)]
          /\ conduit' = conduit
          /\ status' = status

HasBytes(s) == ~rdone[s] /\ Len(conduit[s]) > 0

Mutator(h) ==
    \/ h.kind \in {"create", "evict"}
    \/ h.kind = "read" /\ rd[h.n].op = "cancel"

\* C15: status reads can hold the map together, while each insert, cancel
\* and evict operation holds it exclusively: none of them overlaps with
\* another of them or with a status read.
C15_MutatorsExclusive ==
    \A h \in holders : Mutator(h) => holders = {h}

\* C15 as amended: each insert and each evict holds the map exclusively;
\* cancel holds it shared, as status reads do.
C15_WritersExclusive ==
    /\ \A h \in holders : h.kind \in {"create", "evict"} => holders = {h}
    /\ \A h \in holders : h.kind = "read" => rd[h.n].pc = "holding"
    /\ \A c \in Calls : pc[c] \in {"locked", "inserted", "spawned"}
                           <=> Creator(c) \in holders
    /\ \A c \in Calls : ev[c] = "holding" <=> Evictor(c) \in holders

\* C15 witness: a cancel and a status read hold the map at the same time.
C15_Witness ==
    \E q, r \in Readers :
        /\ rd[q].pc = "holding" /\ rd[q].op = "cancel"
        /\ rd[r].pc = "holding" /\ rd[r].op = "status"
        /\ {Reader(q), Reader(r)} \subseteq holders

\* C18: a task whose future has been spawned, whose engine has started or
\* whose id has been returned has had its record inserted before.
C18_InsertedBeforeSpawnAndReturn ==
    \A c \in Calls :
        (Spawned(c) \/ status[c] \in {"Running"} \cup Terminal)
            => c \in inserted

\* C18 witness: the engine of a task is running while its creation call,
\* the record inserted, still holds the write guard and has not returned.
C18_Witness ==
    \E c \in Calls :
        /\ pc[c] = "spawned"
        /\ status[c] = "Running"
        /\ Creator(c) \in holders
        /\ id[c] \in DOMAIN tasks /\ tasks[id[c]].handle = c

====
